---- MODULE Spec2Model ----
(***************************************************************************)
(* gql-generator: main() of src/unnamed/part_000.  A parsed GraphQL schema *)
(* is turned into one operation document per root field.  Strings are TLC  *)
(* strings; a queryStr is the sequence of the pieces the code appends to   *)
(* it, in order, so that '' is the empty sequence.                         *)
(***************************************************************************)
EXTENDS Integers, Sequences, FiniteSets, TLC

(***************************************************************************)
(* Bounds of the model.                                                    *)
(***************************************************************************)
\* depthLimit is drawn from 0..MaxDepthLimit
MaxDepthLimit == 4
\* nested generateQuery calls the engine's call stack holds before RangeError
MaxCallStack == 6

(***************************************************************************)
(* String helpers (String.prototype / RegExp used by the source).          *)
(***************************************************************************)
\* String.prototype.includes, RegExp.test of a literal pattern
Includes(s, sub) ==
  \E i \in 1..(Len(s) - Len(sub) + 1) : SubSeq(s, i, i + Len(sub) - 1) = sub

\* field.type.toJSON().replace(/[[\]!]/g, '')
RECURSIVE StripWrappers(_)
StripWrappers(s) ==
  IF Len(s) = 0 THEN ""
  ELSE LET c == SubSeq(s, 1, 1)
           rest == StripWrappers(SubSeq(s, 2, Len(s)))
       IN  IF c \in {"[", "]", "!"} THEN rest ELSE c \o rest

LowerChar(c) ==
  CASE c = "A" -> "a" [] c = "B" -> "b" [] c = "C" -> "c" [] c = "D" -> "d"
    [] c = "E" -> "e" [] c = "F" -> "f" [] c = "G" -> "g" [] c = "H" -> "h"
    [] c = "I" -> "i" [] c = "J" -> "j" [] c = "K" -> "k" [] c = "L" -> "l"
    [] c = "M" -> "m" [] c = "N" -> "n" [] c = "O" -> "o" [] c = "P" -> "p"
    [] c = "Q" -> "q" [] c = "R" -> "r" [] c = "S" -> "s" [] c = "T" -> "t"
    [] c = "U" -> "u" [] c = "V" -> "v" [] c = "W" -> "w" [] c = "X" -> "x"
    [] c = "Y" -> "y" [] c = "Z" -> "z" [] OTHER -> c

\* description.toLowerCase()
RECURSIVE ToLowerCase(_)
ToLowerCase(s) ==
  IF Len(s) = 0 THEN ""
  ELSE LowerChar(SubSeq(s, 1, 1)) \o ToLowerCase(SubSeq(s, 2, Len(s)))

\* '    '.repeat(n)
RECURSIVE Repeat4(_)
Repeat4(n) == IF n <= 0 THEN "" ELSE "    " \o Repeat4(n - 1)

(***************************************************************************)
(* The schema model (graphql-js): types, fields, arguments.                *)
(***************************************************************************)
\* a GraphQLArgument; "of" stands for the identity of the argument object
\* (the field that owns it), name and type are what the code reads
Arg(of, name, type) == [of |-> of, name |-> name, type |-> type]
NoArg == Arg("", "", "")

\* a GraphQLField: deprecationReason and description are "" when undefined
Fld(name, type, args, deprecationReason, description) ==
  [name |-> name, type |-> type, args |-> args,
   deprecationReason |-> deprecationReason, description |-> description]

F(name, type) == Fld(name, type, <<>>, "", "")

Obj(fields) == [kind |-> "ObjectTypeDefinition", fields |-> fields, types |-> <<>>]
Union(types) == [kind |-> "UnionTypeDefinition", fields |-> <<>>, types |-> types]
Scalar == [kind |-> "Scalar", fields |-> <<>>, types |-> <<>>]

Schema(mutation, query, subscription, types) ==
  [mutation |-> mutation, query |-> query, subscription |-> subscription,
   types |-> types]

\* gqlSchema.getType(name): built-in scalars have no astNode and no getFields
GetType(S, name) == IF name \in DOMAIN S.types THEN S.types[name] ELSE Scalar

\* Object.keys(type.getFields())
FieldNames(type) == [i \in 1..Len(type.fields) |-> type.fields[i].name]

\* gqlSchema.getType(T).getFields()[name]
GetField(S, typeName, name) ==
  LET fs == GetType(S, typeName).fields
  IN  fs[CHOOSE i \in 1..Len(fs) : fs[i].name = name]

(***************************************************************************)
(* JavaScript objects used as dictionaries: a sequence of <<key, value>>   *)
(* in insertion order (all keys here are non-numeric strings, and none is   *)
(* the name of a property of Object.prototype).                            *)
(***************************************************************************)
Has(dict, key) == \E i \in 1..Len(dict) : dict[i][1] = key

Get(dict, key) == dict[CHOOSE i \in 1..Len(dict) : dict[i][1] = key][2]

\* dict[key] = value: an existing key keeps its place
Put(dict, key, value) ==
  IF Has(dict, key)
  THEN [i \in 1..Len(dict) |->
          IF dict[i][1] = key THEN <<key, value>> ELSE dict[i]]
  ELSE Append(dict, <<key, value>>)

\* Object.assign(target, source)
RECURSIVE ObjectAssign(_, _)
ObjectAssign(target, source) ==
  IF Len(source) = 0 THEN target
  ELSE ObjectAssign(Put(target, source[1][1], source[1][2]), Tail(source))

(***************************************************************************)
(* The pieces of a queryStr.  k is the piece, s its name, d the curDepth   *)
(* it is indented by; a field piece also records the parent type, the      *)
(* fromUnion flag and the kind of its result type; an argument piece       *)
(* records the variable name in s and the Argument it renders.             *)
(***************************************************************************)
Tok(k, s, d) == [k |-> k, s |-> s, d |-> d, p |-> "", u |-> FALSE, c |-> "", arg |-> NoArg]
FieldTok(name, d, p, u, c) == [Tok("field", name, d) EXCEPT !.p = p, !.u = u, !.c = c]
ArgTok(k, varName, arg) == [Tok(k, varName, 0) EXCEPT !.arg = arg]
NL == Tok("nl", "", 0)

\* the text a piece stands for
Text(t) ==
  CASE t.k = "field" -> Repeat4(t.d) \o t.s
    [] t.k = "typename" -> Repeat4(t.d) \o "__typename"
    [] t.k = "on" -> Repeat4(t.d) \o "... on " \o t.s \o " "
    [] t.k = "}" -> Repeat4(t.d) \o "}"
    [] t.k = "call" -> t.arg.name \o ": $" \o t.s
    [] t.k = "decl" -> "$" \o t.s \o ": " \o t.arg.type
    [] t.k = "nl" -> "\n"
    [] t.k = "op" -> t.s \o " "
    [] OTHER -> t.s

\* strs.filter((cur) => Boolean(cur)).join(sep)
RECURSIVE JoinFrom(_, _, _, _)
JoinFrom(strs, i, sep, first) ==
  IF i > Len(strs) THEN <<>>
  ELSE IF Len(strs[i]) = 0 THEN JoinFrom(strs, i + 1, sep, first)
  ELSE (IF first THEN <<>> ELSE <<sep>>) \o strs[i] \o JoinFrom(strs, i + 1, sep, FALSE)

FilterJoin(strs, sep) == JoinFrom(strs, 1, sep, TRUE)

(***************************************************************************)
(* getFieldArgsDict: the dictionary varName -> Argument of one field, and  *)
(* the updated duplicateArgCounts (mutated in place by the source).        *)
(***************************************************************************)
RECURSIVE ArgsReduce(_, _, _, _, _)
ArgsReduce(args, i, o, duplicateArgCounts, allArgsDict) ==
  IF i > Len(args) THEN [dict |-> o, duplicateArgCounts |-> duplicateArgCounts]
  ELSE LET arg == args[i] IN
    IF Has(duplicateArgCounts, arg.name)
    THEN LET index == Get(duplicateArgCounts, arg.name) + 1
         IN  ArgsReduce(args, i + 1, Put(o, arg.name \o ToString(index), arg),
                        Put(duplicateArgCounts, arg.name, index), allArgsDict)
    ELSE IF Has(allArgsDict, arg.name)
    THEN ArgsReduce(args, i + 1, Put(o, arg.name \o ToString(1), arg),
                    Put(duplicateArgCounts, arg.name, 1), allArgsDict)
    ELSE ArgsReduce(args, i + 1, Put(o, arg.name, arg), duplicateArgCounts, allArgsDict)

getFieldArgsDict(field, duplicateArgCounts, allArgsDict) ==
  ArgsReduce(field.args, 1, <<>>, duplicateArgCounts, allArgsDict)

\* Object.entries(dict).map(([varName, arg]) => `${arg.name}: $${varName}`).join(', ')
getArgsToVarsStr(dict) ==
  FilterJoin([i \in 1..Len(dict) |-> <<ArgTok("call", dict[i][1], dict[i][2])>>],
             Tok(",", ", ", 0))

\* Object.entries(dict).map(([varName, arg]) => `$${varName}: ${arg.type}`).join(', ')
getVarsToTypesStr(dict) ==
  FilterJoin([i \in 1..Len(dict) |-> <<ArgTok("decl", dict[i][1], dict[i][2])>>],
             Tok(",", ", ", 0))

(***************************************************************************)
(* generateQuery.  st is the state the recursive calls share by reference: *)
(* argumentsDict, duplicateArgCounts and crossReferenceKeyList (one array, *)
(* passed on as it is, never copied), thrown (a RangeError is unwinding    *)
(* the stack) and expanded (the number of composite fields expanded).      *)
(* The result is [obj, queryStr, st]: obj is FALSE for the bare '' of the  *)
(* early return, whose .queryStr and .argumentsDict are undefined.         *)
(***************************************************************************)
NewState ==
  [argumentsDict |-> <<>>, duplicateArgCounts |-> <<>>,
   crossReferenceKeyList |-> <<>>, thrown |-> FALSE, expanded |-> 0]

\* `${curParentName}To${curName}Key`
crossReferenceKey(curParentName, curName) ==
  curParentName \o "To" \o curName \o "Key"

\* the union adjustment applied to every field
EffectiveDepth_AlwaysUnion(curDepth, fromUnion) == curDepth - 2

\* (fromUnion ? curDepth - 2 : curDepth)
EffectiveDepth(curDepth, fromUnion) == IF fromUnion THEN curDepth - 2 ELSE curDepth

\* the early return without its visited-edge test
Pruned_DepthOnly(cfg, list, key, curDepth, fromUnion) ==
  EffectiveDepth(curDepth, fromUnion) > cfg.depthLimit

\* the early return: the edge was visited, or the field lies too deep
Pruned(cfg, list, key, curDepth, fromUnion) ==
  \/ (~cfg.includeCrossReferences /\ \E i \in 1..Len(list) : list[i] = key)
  \/ EffectiveDepth(curDepth, fromUnion) > cfg.depthLimit

\* the filter on childKeys: includeDeprecatedFields || !fieldSchema.deprecationReason
KeepField(cfg, fieldSchema) ==
  cfg.includeDeprecatedFields \/ fieldSchema.deprecationReason = ""

\* the keys of a union member's fields, mapped without a filter
UnionChildKeys(cfg, valueType) == FieldNames(valueType)

\* a union block that opens without the __typename line
UnionHead_NoTypename(curDepth) == <<Tok("{", "{", 0), NL>>

\* what the union block starts with
UnionHead(curDepth) == <<Tok("{", "{", 0), NL, Tok("typename", "", curDepth + 1), NL>>

\* the condition under which the field's own line is written
EmitsField(hasGetFields, childQuery) == ~(hasGetFields /\ Len(childQuery) = 0)

RECURSIVE generateQuery(_, _, _, _, _, _, _, _, _)
RECURSIVE MapChildren(_, _, _, _, _, _, _, _, _, _)
RECURSIVE UnionTypes(_, _, _, _, _, _, _, _)

\* keys.map((cur) => generateQuery(cur, parentType, parentName, ...).queryStr)
MapChildren(S, cfg, keys, i, parentType, parentName, st, curDepth, fromUnion, nest) ==
  IF i > Len(keys) \/ st.thrown THEN [strs |-> <<>>, st |-> st]
  ELSE LET r == generateQuery(S, cfg, keys[i], parentType, parentName, st,
                              curDepth, fromUnion, nest)
           rest == MapChildren(S, cfg, keys, i + 1, parentType, parentName, r.st,
                               curDepth, fromUnion, nest)
       IN  [strs |-> <<r.queryStr>> \o rest.strs, st |-> rest.st]

\* the loop over curType.getTypes(): one inline fragment per member type
\* whose unionChildQuery is not empty
UnionTypes(S, cfg, types, i, curName, st, curDepth, nest) ==
  IF i > Len(types) \/ st.thrown THEN [queryStr |-> <<>>, st |-> st]
  ELSE LET valueTypeName == types[i]
           valueType == GetType(S, valueTypeName)
           m == MapChildren(S, cfg, UnionChildKeys(cfg, valueType), 1, valueTypeName,
                            curName, st, curDepth + 2, TRUE, nest)
           unionChildQuery == FilterJoin(m.strs, NL)
           frag == IF Len(unionChildQuery) > 0
                   THEN <<Tok("on", valueTypeName, curDepth + 1), Tok("{", "{", 0), NL>>
                        \o unionChildQuery
                        \o <<NL, Tok("}", "", curDepth + 1), NL>>
                   ELSE <<>>
           rest == UnionTypes(S, cfg, types, i + 1, curName, m.st, curDepth, nest)
       IN  [queryStr |-> frag \o rest.queryStr, st |-> rest.st]

generateQuery(S, cfg, curName, curParentType, curParentName, st, curDepth, fromUnion, nest) ==
  LET field == GetField(S, curParentType, curName)
      curTypeName == StripWrappers(field.type)
      curType == GetType(S, curTypeName)
      hasGetFields == curType.kind = "ObjectTypeDefinition"
      key == crossReferenceKey(curParentName, curName)
  IN
  IF nest > MaxCallStack
  THEN [obj |-> FALSE, queryStr |-> <<>>, st |-> [st EXCEPT !.thrown = TRUE]]
  ELSE IF hasGetFields /\ Pruned(cfg, st.crossReferenceKeyList, key, curDepth, fromUnion)
  THEN [obj |-> FALSE, queryStr |-> <<>>, st |-> st]
  ELSE
  LET st1 == IF hasGetFields
             THEN [st EXCEPT !.crossReferenceKeyList = Append(@, key),
                             !.expanded = @ + 1]
             ELSE st
      childKeys == IF hasGetFields
                   THEN SelectSeq(FieldNames(curType),
                          LAMBDA fieldName : KeepField(cfg, GetField(S, curTypeName, fieldName)))
                   ELSE <<>>
      ch == MapChildren(S, cfg, childKeys, 1, curTypeName, curName, st1,
                        curDepth + 1, fromUnion, nest + 1)
      childQuery == FilterJoin(ch.strs, NL)
      emit == EmitsField(hasGetFields, childQuery)
      fa == getFieldArgsDict(field, ch.st.duplicateArgCounts, ch.st.argumentsDict)
      hasArgs == emit /\ Len(field.args) > 0
      st2 == IF hasArgs
             THEN [ch.st EXCEPT !.duplicateArgCounts = fa.duplicateArgCounts,
                                !.argumentsDict = ObjectAssign(@, fa.dict)]
             ELSE ch.st
      q1 == IF emit
            THEN <<FieldTok(field.name, curDepth, curParentType, fromUnion, curType.kind)>>
                 \o (IF hasArgs
                     THEN <<Tok("(", "(", 0)>> \o getArgsToVarsStr(fa.dict) \o <<Tok(")", ")", 0)>>
                     ELSE <<>>)
                 \o (IF Len(childQuery) > 0
                     THEN <<Tok("{", "{", 0), NL>> \o childQuery \o <<NL, Tok("}", "", curDepth)>>
                     ELSE <<>>)
            ELSE <<>>
      isUnion == curType.kind = "UnionTypeDefinition" /\ Len(curType.types) > 0
      un == UnionTypes(S, cfg, curType.types, 1, curName, st2, curDepth, nest + 1)
  IN
  IF ch.st.thrown THEN [obj |-> FALSE, queryStr |-> <<>>, st |-> ch.st]
  ELSE IF ~isUnion THEN [obj |-> TRUE, queryStr |-> q1, st |-> st2]
  ELSE IF un.st.thrown THEN [obj |-> FALSE, queryStr |-> <<>>, st |-> un.st]
  ELSE [obj |-> TRUE,
        queryStr |-> q1 \o UnionHead(curDepth) \o un.queryStr \o <<Tok("}", "", curDepth)>>,
        st |-> un.st]

(***************************************************************************)
(* The schemas main() is run on (what buildSchema returns).                *)
(***************************************************************************)
\* arguments whose names collide across the document
SchemaArgs ==
  Schema("", "Query", "",
    [Query |-> Obj(<<
        Fld("item", "Item", <<Arg("Query.item", "id", "ID!"),
                              Arg("Query.item", "id1", "String")>>, "", ""),
        Fld("other", "Item2", <<Arg("Query.other", "id", "ID")>>, "", ""),
        Fld("ok", "[Item3!]!", <<Arg("Query.ok", "id", "Int"),
                                 Arg("Query.ok", "name", "String")>>, "", ""),
        Fld("plain", "Int", <<Arg("Query.plain", "id", "Int")>>, "", "")>>),
     Item |-> Obj(<<
        Fld("sub", "Int", <<Arg("Item.sub", "id", "Int")>>, "", ""),
        F("name", "String")>>),
     Item2 |-> Obj(<<
        Fld("a", "Int", <<Arg("Item2.a", "id1", "String")>>, "", ""),
        Fld("b", "Int", <<Arg("Item2.b", "id", "Int")>>, "", "")>>),
     Item3 |-> Obj(<<
        Fld("c", "Int", <<Arg("Item3.c", "id", "Int"),
                          Arg("Item3.c", "name", "String")>>, "", ""),
        Fld("d", "Int", <<Arg("Item3.d", "id", "Int!")>>, "", "")>>)])

\* a self-referencing type
SchemaNode ==
  Schema("", "Query", "",
    [Query |-> Obj(<<F("node", "Node")>>),
     Node |-> Obj(<<F("id", "ID!"), F("parent", "Node")>>)])

\* a cycle that passes through a union member type
SchemaUnionCycle ==
  Schema("", "Query", "",
    [Query |-> Obj(<<F("r", "U")>>),
     U |-> Union(<<"A">>),
     A |-> Obj(<<F("x", "Int"), F("u", "U")>>)])

\* the same field names under two subtrees of different depth
SchemaShared ==
  Schema("", "Query", "",
    [Query |-> Obj(<<F("r", "A")>>),
     A |-> Obj(<<F("r", "B"), F("g", "G")>>),
     B |-> Obj(<<F("g", "H")>>),
     G |-> Obj(<<F("g1", "Int"), F("g2", "Int"), F("g3", "Int")>>),
     H |-> Obj(<<F("h1", "Int")>>)])

\* deprecated fields at the root, in a composite type and in a union member
SchemaDeprecated ==
  Schema("", "Query", "",
    [Query |-> Obj(<<
        F("r", "A"),
        Fld("old", "Int", <<>>, "No longer supported", ""),
        F("s", "U"),
        F("e", "E")>>),
     A |-> Obj(<<F("x", "Int"), Fld("y", "Int", <<>>, "use x", "")>>),
     U |-> Union(<<"M">>),
     M |-> Obj(<<F("m", "Int"), Fld("dm", "Int", <<>>, "use m", "")>>),
     E |-> Obj(<<Fld("y", "Int", <<>>, "gone", "")>>)])

\* unions whose members contribute, or do not, depending on depthLimit
SchemaUnion ==
  Schema("", "Query", "",
    [Query |-> Obj(<<F("u", "U!"), F("v", "[V]")>>),
     U |-> Union(<<"A", "C", "B">>),
     V |-> Union(<<"C">>),
     A |-> Obj(<<F("x", "Int")>>),
     B |-> Obj(<<F("y", "Int")>>),
     C |-> Obj(<<F("deep", "D")>>),
     D |-> Obj(<<F("e", "E")>>),
     E |-> Obj(<<F("z", "Int")>>)])

\* audience annotations, a customised operation, a deprecated operation
SchemaAudience ==
  Schema("Mutation", "Query", "",
    [Query |-> Obj(<<
        Fld("a", "Int", <<>>, "", "admin"),
        F("b", "Int"),
        Fld("w", "Int", <<>>, "", "website"),
        Fld("m", "Int", <<>>, "", "for mobile apps"),
        Fld("sh", "Int", <<>>, "", "shared"),
        F("c", "Int"),
        Fld("d", "Int", <<>>, "old", "")>>),
     Mutation |-> Obj(<<
        Fld("a2", "Int", <<>>, "", "admin"),
        F("b2", "Int")>>)])

\* schema { query: Root, mutation: Mutation }: a root type of no recognised kind
SchemaRoot ==
  Schema("Mutation", "Root", "",
    [Root |-> Obj(<<F("a", "Int"), F("b", "B")>>),
     Mutation |-> Obj(<<F("set", "Int")>>),
     B |-> Obj(<<F("x", "Int")>>)])

\* lower-case root type names
SchemaLower ==
  Schema("mutation_root", "query_root", "subscription_root",
    [query_root |-> Obj(<<F("a", "Int")>>),
     mutation_root |-> Obj(<<F("b", "Int")>>),
     subscription_root |-> Obj(<<F("c", "Int")>>)])

\* two members of one union that select the same composite field
SchemaMembers ==
  Schema("", "Query", "",
    [Query |-> Obj(<<F("s", "U")>>),
     U |-> Union(<<"A", "B">>),
     A |-> Obj(<<F("n", "N")>>),
     B |-> Obj(<<F("n", "N"), F("y", "Int")>>),
     N |-> Obj(<<F("z", "Int")>>)])

SchemaNames ==
  {"Args", "Node", "UnionCycle", "Shared", "Deprecated", "Union", "Audience",
   "Root", "Lower", "Members"}

SchemaOf(id) ==
  CASE id = "Args" -> SchemaArgs
    [] id = "Node" -> SchemaNode
    [] id = "UnionCycle" -> SchemaUnionCycle
    [] id = "Shared" -> SchemaShared
    [] id = "Deprecated" -> SchemaDeprecated
    [] id = "Union" -> SchemaUnion
    [] id = "Audience" -> SchemaAudience
    [] id = "Root" -> SchemaRoot
    [] id = "Lower" -> SchemaLower
    [] id = "Members" -> SchemaMembers

\* the options of main(): the flags arrive as strings from the command line
Options ==
  [depthLimit : 0..MaxDepthLimit,
   isAdmin : {"", "true"}, isMobile : {"", "true"},
   isWebsite : {"", "true"}, isShared : {"", "true"},
   customisedQueries : {{}, {"c", "b2"}},
   includeDeprecatedFields : BOOLEAN,
   includeCrossReferences : BOOLEAN]

(***************************************************************************)
(* main(): generateFile for the mutation, query and subscription types.    *)
(***************************************************************************)
VARIABLES
  schemaName,        \* which schema gqlSchema is
  opts,              \* the options main() was called with
  stage,             \* which of the three root types main() is at
  pc,                \* "main", "forEach" (inside generateFile), "done", "aborted"
  description,       \* generateFile's second parameter, the root type's name
  outputFolderName,  \* "undefined" when no case of the switch matched
  index,             \* position of forEach in Object.keys(obj)
  folders,           \* the folders made under destDirPath by mkdirSync
  files,             \* the writeFileSync calls so far, in order
  warnings,          \* the console.log calls so far
  error,             \* the exception that ended the run, "" if none
  traversal          \* the shared state of the last generateQuery call

vars == <<schemaName, opts, stage, pc, description, outputFolderName, index,
          folders, files, warnings, error, traversal>>

gqlSchema == SchemaOf(schemaName)

\* getMutationType() / getQueryType() / getSubscriptionType(): "" when absent
RootType(S, st) ==
  CASE st = "mutation" -> S.mutation
    [] st = "query" -> S.query
    [] st = "subscription" -> S.subscription

NextStage(st) ==
  CASE st = "mutation" -> "query"
    [] st = "query" -> "subscription"
    [] st = "subscription" -> "done"

\* the first switch of generateFile
OutputFolder(desc) ==
  IF Includes(desc, "Mutation") \/ Includes(desc, "mutation") THEN "mutations"
  ELSE IF Includes(desc, "Query") \/ Includes(desc, "query") THEN "queries"
  ELSE IF Includes(desc, "Subscription") \/ Includes(desc, "subscription")
       THEN "subscriptions"
  ELSE "undefined"

\* the second switch: queryName || description.toLowerCase()
OperationKeyword(desc) ==
  IF Includes(desc, "Mutation") \/ Includes(desc, "mutation") THEN "mutation"
  ELSE IF Includes(desc, "Query") \/ Includes(desc, "query") THEN "query"
  ELSE IF Includes(desc, "Subscription") \/ Includes(desc, "subscription")
       THEN "subscription"
  ELSE ToLowerCase(desc)

\* the early returns of the forEach callback
AdminRule(o, field) ==
  ~ \/ (o.isAdmin = "true" /\ field.description # "admin")
    \/ (o.isAdmin # "true" /\ field.description = "admin")

WebsiteRule(o, field) ==
  ~ \/ (o.isWebsite = "true" /\ field.description # "website")
    \/ (o.isWebsite # "true" /\ field.description = "website")

MobileRule(o, field) ==
  ~ (o.isMobile = "true"
     /\ ~(field.description # "" /\ Includes(field.description, "mobile")))

SharedRule(o, field) == ~ (o.isShared = "true" /\ field.description # "shared")

CustomisedRule(o, type) == type \notin o.customisedQueries

DeprecatedRule(o, field) == o.includeDeprecatedFields \/ field.deprecationReason = ""

Selected(o, type, field) ==
  /\ AdminRule(o, field)
  /\ WebsiteRule(o, field)
  /\ MobileRule(o, field)
  /\ SharedRule(o, field)
  /\ CustomisedRule(o, type)
  /\ DeprecatedRule(o, field)

\* the document of one root field
Document(desc, type, queryResult) ==
  LET varsToTypesStr == getVarsToTypesStr(queryResult.st.argumentsDict)
  IN  <<Tok("op", OperationKeyword(desc), 0), Tok("name", type, 0)>>
      \o (IF Len(varsToTypesStr) > 0
          THEN <<Tok("(", "(", 0)>> \o varsToTypesStr \o <<Tok(")", ")", 0)>>
          ELSE <<>>)
      \o <<Tok("{", "{", 0), NL>> \o queryResult.queryStr \o <<NL, Tok("}", "", 0)>>

\* generateQuery(type, description) with the defaults of its other parameters
TopQuery(S, o, type, desc) ==
  generateQuery(S, o, type, desc, "undefined", NewState, 1, FALSE, 1)

Init ==
  /\ schemaName \in SchemaNames
  /\ opts \in Options
  /\ stage = "mutation"
  /\ pc = "main"
  /\ description = ""
  /\ outputFolderName = ""
  /\ index = 0
  /\ folders = {}
  /\ files = <<>>
  /\ warnings = <<>>
  /\ error = ""
  /\ traversal = NewState

\* if (gqlSchema.getXType()) is false: nothing is generated for that root
SkipRoot ==
  /\ pc = "main" /\ stage # "done"
  /\ RootType(gqlSchema, stage) = ""
  /\ stage' = NextStage(stage)
  /\ pc' = IF NextStage(stage) = "done" THEN "done" ELSE "main"
  /\ UNCHANGED <<schemaName, opts, description, outputFolderName, index, folders,
                 files, warnings, error, traversal>>

\* generateFile up to its forEach: folder name, warning, mkdir
GenerateFile ==
  /\ pc = "main" /\ stage # "done"
  /\ RootType(gqlSchema, stage) # ""
  /\ description' = RootType(gqlSchema, stage)
  /\ outputFolderName' = OutputFolder(description')
  /\ warnings' = IF outputFolderName' = "undefined"
                 THEN Append(warnings, "description is required")
                 ELSE warnings
  /\ folders' = folders \cup {outputFolderName'}
  /\ index' = 1
  /\ pc' = "forEach"
  /\ UNCHANGED <<schemaName, opts, stage, files, error, traversal>>

\* one call of the forEach callback
ForEach ==
  /\ pc = "forEach"
  /\ index <= Len(GetType(gqlSchema, description).fields)
  /\ LET type == FieldNames(GetType(gqlSchema, description))[index]
         field == GetField(gqlSchema, description, type)
         queryResult == TopQuery(gqlSchema, opts, type, description)
     IN  IF ~Selected(opts, type, field)
         THEN /\ index' = index + 1
              /\ UNCHANGED <<pc, files, error, traversal>>
         ELSE IF queryResult.st.thrown
         THEN /\ pc' = "aborted"
              /\ error' = "RangeError"
              /\ traversal' = queryResult.st
              /\ UNCHANGED <<index, files>>
         ELSE IF ~queryResult.obj
         THEN /\ pc' = "aborted"
              /\ error' = "TypeError"
              /\ traversal' = queryResult.st
              /\ UNCHANGED <<index, files>>
         ELSE /\ files' = Append(files,
                    [folder |-> outputFolderName, name |-> type,
                     root |-> description,
                     query |-> Document(description, type, queryResult)])
              /\ traversal' = queryResult.st
              /\ index' = index + 1
              /\ UNCHANGED <<pc, error>>
  /\ UNCHANGED <<schemaName, opts, stage, description, outputFolderName, folders,
                 warnings>>

\* forEach is over: generateFile returns to main()
Return ==
  /\ pc = "forEach"
  /\ index > Len(GetType(gqlSchema, description).fields)
  /\ stage' = NextStage(stage)
  /\ pc' = IF NextStage(stage) = "done" THEN "done" ELSE "main"
  /\ UNCHANGED <<schemaName, opts, description, outputFolderName, index, folders,
                 files, warnings, error, traversal>>

Next == SkipRoot \/ GenerateFile \/ ForEach \/ Return

Spec == Init /\ [][Next]_vars

(***************************************************************************)
(* Reading a written document: its field lines, their nesting, their call  *)
(* sites and the variable declarations of its header.                      *)
(***************************************************************************)
Max(set) == CHOOSE x \in set : \A y \in set : y <= x

\* the pieces of a document other than line breaks
Sig(q) == SelectSeq(q, LAMBDA t : t.k # "nl")

Fields(q) == {i \in 1..Len(q) : q[i].k = "field"}
Decls(q) == {i \in 1..Len(q) : q[i].k = "decl"}
Calls(q) == {i \in 1..Len(q) : q[i].k = "call"}

\* the field line whose selection set encloses line i (0 for the root field)
Parent(q, i) ==
  LET above == {j \in Fields(q) : j < i /\ q[j].d < q[i].d}
  IN  IF above = {} THEN 0 ELSE Max(above)

\* the field lines from the root field down to line i
RECURSIVE Path(_, _)
Path(q, i) == IF i = 0 THEN {} ELSE {i} \cup Path(q, Parent(q, i))

\* the call sites written on field line i
CallsOf(q, i) ==
  IF i < Len(q) /\ q[i + 1].k = "("
  THEN LET close == CHOOSE j \in (i + 1)..Len(q) :
                      q[j].k = ")" /\ \A m \in (i + 1)..(j - 1) : q[m].k # ")"
       IN  {m \in (i + 1)..close : q[m].k = "call"}
  ELSE {}

\* the schema field a field line selects
FieldAt(q, i) == GetField(gqlSchema, q[i].p, q[i].s)

\* the name of the field above line i, as generateQuery receives it
ParentNameAt(q, i) == IF Parent(q, i) = 0 THEN "undefined" ELSE q[Parent(q, i)].s

KeyAt(q, i) == crossReferenceKey(ParentNameAt(q, i), q[i].s)

Composite(q, i) == q[i].c = "ObjectTypeDefinition"

Queries == {files[n].query : n \in 1..Len(files)}

SeqToSet(seq) == {seq[n] : n \in 1..Len(seq)}

(***************************************************************************)
(* C1  Argument uniqueness.                                                *)
(***************************************************************************)
\* C1: in every written document the variable names declared in the header
\* are pairwise distinct, every call site `argName: $v` refers to exactly one
\* declaration `$v: T` with T the type of that very argument, two different
\* Arguments are never rendered with the same variable name, and every
\* argument of an emitted field has its call site.
C1_ArgumentUniqueness ==
  \A q \in Queries :
    /\ \A i, j \in Decls(q) : i # j => q[i].s # q[j].s
    /\ \A c \in Calls(q) :
         /\ Cardinality({d \in Decls(q) : q[d].s = q[c].s}) = 1
         /\ \A d \in Decls(q) : q[d].s = q[c].s => q[d].arg.type = q[c].arg.type
    /\ \A c, e \in Calls(q) : q[c].arg # q[e].arg => q[c].s # q[e].s
    /\ \A i \in Fields(q) :
         {q[c].arg : c \in CallsOf(q, i)} = SeqToSet(FieldAt(q, i).args)

(***************************************************************************)
(* C2  Cycle pruning.                                                      *)
(***************************************************************************)
\* how often the field called name is selected on the path down to line i
Occurrences(q, i, name) == Cardinality({j \in Path(q, i) : q[j].s = name})

AllFieldNames(S) ==
  UNION {SeqToSet(FieldNames(S.types[t])) : t \in DOMAIN S.types}

\* the number of edge keys a schema has: (field names + undefined) x field names
KeyBound(S) == (Cardinality(AllFieldNames(S)) + 1) * Cardinality(AllFieldNames(S))

\* C3: with includeCrossReferences disabled every top-level generateQuery
\* call terminates (the call stack never overflows), and the number of
\* composite fields it expands is bounded by the number of edge keys of the
\* schema, whatever depthLimit is.
C3_Termination ==
  (~opts.includeCrossReferences /\ opts.depthLimit >= 1) =>
    /\ error # "RangeError"
    /\ traversal.expanded <= KeyBound(gqlSchema)

(***************************************************************************)
(* C4  Depth bound.                                                        *)
(***************************************************************************)
\* line i lies below a field of union type
ViaUnion(q, i) ==
  \E j \in Path(q, i) : j # i /\ q[j].c = "UnionTypeDefinition"

\* the depth the claim measures: d, or d - 2 below a union member
ClaimedDepth(q, i) == IF ViaUnion(q, i) THEN q[i].d - 2 ELSE q[i].d

\* C4 as claimed: for depthLimit >= 1 every emitted field, leaf or composite,
\* lies at a depth d <= depthLimit (d - 2 <= depthLimit below a union member).
C4_DepthBound ==
  opts.depthLimit >= 1 =>
    \A q \in Queries : \A i \in Fields(q) : ClaimedDepth(q, i) <= opts.depthLimit

\* C4 as amended: for depthLimit >= 1 every emitted composite (object-typed)
\* field lies at a depth d <= depthLimit (d - 2 <= depthLimit below a union
\* member); leaf and union-typed fields are not depth-checked, so a field
\* directly below a composite field lies at most at depthLimit + 1, and a
\* field of a union member lies two levels below the union-typed field.
C4_CompositeDepthBound ==
  opts.depthLimit >= 1 =>
    \A q \in Queries : \A i \in Fields(q) :
      /\ Composite(q, i) => ClaimedDepth(q, i) <= opts.depthLimit
      /\ (Parent(q, i) # 0 /\ Composite(q, Parent(q, i)))
           => /\ q[i].d = q[Parent(q, i)].d + 1
              /\ ClaimedDepth(q, i) <= opts.depthLimit + 1
      /\ (Parent(q, i) # 0 /\ ~Composite(q, Parent(q, i)))
           => q[i].d = q[Parent(q, i)].d + 2

\* a composite field at depthLimit was expanded and its leaf written one
\* level below the limit
C4_Witness ==
  /\ opts.depthLimit >= 1
  /\ \E q \in Queries : \E i \in Fields(q) :
       /\ ~Composite(q, i)
       /\ Parent(q, i) # 0 /\ Composite(q, Parent(q, i))
       /\ ClaimedDepth(q, Parent(q, i)) = opts.depthLimit
       /\ ClaimedDepth(q, i) = opts.depthLimit + 1

(***************************************************************************)
(* C5  Depth monotonicity.                                                 *)
(***************************************************************************)
FieldCount(q) == Cardinality(Fields(q))

\* the number of fields of the document of root field type under depthLimit L
\* (0 when no document is written)
FieldCountAt(L, desc, type) ==
  LET r == TopQuery(gqlSchema, [opts EXCEPT !.depthLimit = L], type, desc)
  IN  IF r.st.thrown \/ ~r.obj THEN 0 ELSE FieldCount(Document(desc, type, r))

\* C5: the document written under depthLimit has at least as many fields as
\* the document of the same root field under any smaller limit L1 >= 1.
C5_DepthMonotone ==
  \A n \in 1..Len(files) : \A L1 \in 1..opts.depthLimit :
    FieldCountAt(L1, files[n].root, files[n].name) <= FieldCount(files[n].query)

(***************************************************************************)
(* C6  Deprecation.                                                        *)
(***************************************************************************)
\* the type a field line resolves to
TypeAt(q, i) == GetType(gqlSchema, StripWrappers(FieldAt(q, i).type))

\* C6: with includeDeprecatedFields=false no written document selects a
\* deprecated field, at the root, below a composite field or inside an inline
\* fragment; with includeDeprecatedFields=true the leaf fields of every
\* emitted composite field are selected, deprecated or not.
C6_Deprecation ==
  \A q \in Queries : \A i \in Fields(q) :
    /\ ~opts.includeDeprecatedFields => FieldAt(q, i).deprecationReason = ""
    /\ (opts.includeDeprecatedFields /\ Composite(q, i)) =>
         \A n \in 1..Len(TypeAt(q, i).fields) :
           LET sub == TypeAt(q, i).fields[n]
           IN  GetType(gqlSchema, StripWrappers(sub.type)).kind = "Scalar"
                 => \E j \in Fields(q) : Parent(q, j) = i /\ q[j].s = sub.name

(***************************************************************************)
(* C7  No empty composites.                                                *)
(***************************************************************************)
\* C7: in every written document every brace pair, the operation's own
\* included, encloses at least one selection, and every emitted composite
\* field has a selection set.
C7_NoEmptyBraces ==
  \A q \in Queries :
    /\ \A i \in 1..(Len(Sig(q)) - 1) : Sig(q)[i].k = "{" => Sig(q)[i + 1].k # "}"
    /\ \A i \in Fields(q) : Composite(q, i) => \E j \in Fields(q) : Parent(q, j) = i

(***************************************************************************)
(* C8  Union block.                                                        *)
(***************************************************************************)
IsUnion(q, i) == q[i].c = "UnionTypeDefinition"

\* the inline fragments and the __typename lines of the block of line i
OnsOf(q, i) == {j \in 1..Len(q) : q[j].k = "on" /\ Parent(q, j) = i}
TypenamesOf(q, i) == {j \in 1..Len(q) : q[j].k = "typename" /\ Parent(q, j) = i}

PositionIn(seq, x) == CHOOSE n \in 1..Len(seq) : seq[n] = x

\* the inline fragments of every union block: members of the union, in the
\* union's order, none empty, and one for every member that has a field which
\* is always written (a field that is not object-typed)
UnionFragments(q, i) ==
  LET members == TypeAt(q, i).types IN
  /\ \A j \in OnsOf(q, i) : q[j].s \in SeqToSet(members)
  /\ \A j, k \in OnsOf(q, i) :
       j < k => PositionIn(members, q[j].s) < PositionIn(members, q[k].s)
  /\ \A j \in OnsOf(q, i) :
       /\ q[j + 1].k = "{" /\ q[j + 3].k = "field"
       /\ q[j + 3].p = q[j].s /\ Parent(q, j + 3) = i
  /\ \A n \in 1..Len(members) :
       (\E m \in 1..Len(GetType(gqlSchema, members[n]).fields) :
          GetType(gqlSchema,
                  StripWrappers(GetType(gqlSchema, members[n]).fields[m].type)).kind
            # "ObjectTypeDefinition")
       => \E j \in OnsOf(q, i) : q[j].s = members[n]
  /\ \A k \in Fields(q) : Parent(q, k) = i =>
       \E j \in OnsOf(q, i) : j < k /\ q[j].s = q[k].p

\* C8 as claimed: the fragments are those of the contributing members, in
\* order, and __typename is written exactly when some member contributes.
C8_UnionBlock ==
  \A q \in Queries : \A i \in Fields(q) : IsUnion(q, i) =>
    /\ UnionFragments(q, i)
    /\ (TypenamesOf(q, i) # {}) <=> (OnsOf(q, i) # {})

\* C8 as amended: the fragments are those of the contributing members, in
\* order, and __typename is the first line of the block of every union that
\* has a member type, whether or not a member contributes a fragment.
C8_UnionBlockTypename ==
  \A q \in Queries : \A i \in Fields(q) : IsUnion(q, i) =>
    /\ UnionFragments(q, i)
    /\ Len(TypeAt(q, i).types) > 0 =>
         /\ Cardinality(TypenamesOf(q, i)) = 1
         /\ \A t \in TypenamesOf(q, i) :
              /\ q[t].d = q[i].d + 1
              /\ \A j \in OnsOf(q, i) : t < j
              /\ \E b \in (i + 1)..t : q[b].k = "{" /\ b + 2 = t

\* a union of three members, two of which contribute a fragment
C8_Witness ==
  \E q \in Queries : \E i \in Fields(q) :
    /\ IsUnion(q, i)
    /\ Len(TypeAt(q, i).types) = 3
    /\ Cardinality(OnsOf(q, i)) = 2
    /\ TypenamesOf(q, i) # {}

(***************************************************************************)
(* C9  Field selection.                                                    *)
(***************************************************************************)
\* the root fields of one root type that pass the six rules, in schema order
SelectedOf(st) ==
  LET root == RootType(gqlSchema, st)
      names == IF root = "" THEN <<>>
               ELSE SelectSeq(FieldNames(GetType(gqlSchema, root)),
                      LAMBDA n : Selected(opts, n, GetField(gqlSchema, root, n)))
  IN  [n \in 1..Len(names) |-> <<root, names[n]>>]

Written == [n \in 1..Len(files) |-> <<files[n].root, files[n].name>>]

\* C9: when main() has ended (depthLimit >= 1), a document has been written
\* for exactly the root fields that pass the six rules, in the schema's
\* field order.
C9_FieldSelection ==
  (opts.depthLimit >= 1 /\ pc \in {"done", "aborted"}) =>
    Written = SelectedOf("mutation") \o SelectedOf("query") \o SelectedOf("subscription")

(***************************************************************************)
(* C10  Unrecognised root kind.                                            *)
(***************************************************************************)
\* C10: no document is written for a field of a root type whose name matches
\* none of the root kinds, and a warning is logged for it.
C10_UnrecognisedSkipped ==
  /\ \A n \in 1..Len(files) : OutputFolder(files[n].root) # "undefined"
  /\ (pc = "forEach" /\ OutputFolder(description) = "undefined") => Len(warnings) > 0

(***************************************************************************)
(* C11  Visited edges are scoped to the path.                              *)
(***************************************************************************)
\* the edge keys expanded by line i and by its ancestors
AncestorKeys(q, i) == {KeyAt(q, j) : j \in {m \in Path(q, i) : Composite(q, m)}}

\* an object type one of whose fields is a leaf that generateQuery keeps, so
\* that a field of this type has a selection whenever it is expanded
HasLeaf(type) ==
  /\ type.kind = "ObjectTypeDefinition"
  /\ \E n \in 1..Len(type.fields) :
       /\ GetType(gqlSchema, StripWrappers(type.fields[n].type)).kind = "Scalar"
       /\ KeepField(opts, type.fields[n])

\* line k selects field name of type typeName directly below line i
SelectedBelow(q, i, typeName, name) ==
  \E k \in Fields(q) : Parent(q, k) = i /\ q[k].p = typeName /\ q[k].s = name

\* C11: with includeCrossReferences disabled, a composite field within
\* depthLimit is omitted by the visited-edge rule only when its edge key was
\* expanded by one of its own ancestors: below every emitted composite field,
\* and inside every member of an emitted union field, each kept composite
\* sub-field within depthLimit whose key no ancestor expanded is selected,
\* whatever was traversed before it in a sibling subtree or in an earlier
\* union member.
C11_PathScoped ==
  ~opts.includeCrossReferences =>
    \A q \in Queries : \A i \in Fields(q) :
      /\ Composite(q, i) =>
           \A n \in 1..Len(TypeAt(q, i).fields) :
             LET f == TypeAt(q, i).fields[n] IN
             ( /\ KeepField(opts, f)
               /\ HasLeaf(GetType(gqlSchema, StripWrappers(f.type)))
               /\ ClaimedDepth(q, i) + 1 <= opts.depthLimit
               /\ crossReferenceKey(q[i].s, f.name) \notin AncestorKeys(q, i) )
             => SelectedBelow(q, i, StripWrappers(FieldAt(q, i).type), f.name)
      /\ IsUnion(q, i) =>
           \A t \in 1..Len(TypeAt(q, i).types) :
             LET valueTypeName == TypeAt(q, i).types[t]
                 valueType == GetType(gqlSchema, valueTypeName)
             IN  \A n \in 1..Len(valueType.fields) :
                   LET f == valueType.fields[n] IN
                   ( /\ HasLeaf(GetType(gqlSchema, StripWrappers(f.type)))
                     /\ q[i].d <= opts.depthLimit
                     /\ crossReferenceKey(q[i].s, f.name) \notin AncestorKeys(q, i) )
                   => SelectedBelow(q, i, valueTypeName, f.name)
====
